---- MODULE Spec2Model ----
(***************************************************************************)
(* The Notes single-page client (client/src/services/api.ts and the Notes  *)
(* and Login pages of client/src/app) as a state machine: the auth store   *)
(* and localStorage, the query cache, the mutations with their optimistic  *)
(* updates, the axios interceptors, the requests and responses in flight,  *)
(* and the REST server the client talks to.                                *)
(***************************************************************************)
EXTENDS Integers, Sequences, FiniteSets

\* ------------------------------------------------------------------ bounds
MaxNote == 2       \* note ids the server hands out: 1..MaxNote
MaxCat == 2        \* category ids the server hands out to this user: 1..MaxCat
MaxInflight == 2   \* requests and responses in flight at the same time
MaxTime == 1       \* the server clock runs 0..MaxTime
MaxLen == 3        \* longest notes array given to the list view
MaxTimers == 2     \* redirect timeouts pending at the same time

\* ------------------------------------------------------- program constants
NullId == 0                      \* category: number | null
DefaultPage == 1                 \* getNotes(page = 1, ...)
DefaultPageSize == 20            \* getNotes(..., pageSize = 20)
Unauthorized == 401

\* ------------------------------------------------------------------ values
None == <<>>
Some(x) == <<x>>
IsSome(o) == o # <<>>
The(o) == o[1]

NoteIds == 1..MaxNote
CatIds == 1..MaxCat
Slots == 1..MaxInflight
Me == 1                          \* Category.user of the logged-in user
Other == 2                       \* another user of the server
Tokens == {"jwt1"}               \* access tokens the token endpoint hands out

\* Text is a sequence of characters.
Space == " "
UntitledNote == <<"U","n","t","i","t","l","e","d"," ","N","o","t","e">>

\* updated_at is an ISO string; here <<day, second>>, parsed by GetTime.
Stamp(t) == <<t \div 2, t % 2>>
GetTime(ts) == (ts[1] * 86400 + ts[2]) * 1000

RECURSIVE TrimStart(_)
TrimStart(s) == IF s # <<>> /\ Head(s) = Space THEN TrimStart(Tail(s)) ELSE s

RECURSIVE TrimEnd(_)
TrimEnd(s) ==
  IF s # <<>> /\ s[Len(s)] = Space THEN TrimEnd(SubSeq(s, 1, Len(s) - 1)) ELSE s

Trim(s) == TrimEnd(TrimStart(s))

Lower(c) == IF c = "A" THEN "a" ELSE IF c = "B" THEN "b" ELSE c
ToLowerCase(s) == [i \in 1..Len(s) |-> Lower(s[i])]
Includes(s, q) ==
  \E i \in 0..(Len(s) - Len(q)) : SubSeq(s, i + 1, i + Len(q)) = q

Range(s) == {s[i] : i \in 1..Len(s)}

\* A Note of api.ts (created_at, which the client never reads, is left out).
Note(i, t, c, u, p, k) ==
  [id |-> i, title |-> t, content |-> c, updated_at |-> u, is_pinned |-> p,
   category |-> k]

\* A Category of api.ts.
Category(i, n, u) == [id |-> i, name |-> n, user |-> u]

\* The body of a list response: the bare array, or the page object
\* {results, count, next, previous} that getNotes and getCategories declare.
ListBody(paged, items, n) == [paged |-> paged, results |-> items, count |-> n]

\* ---------------------------------------------------------------- state
VARIABLES
  token,                 \* useAuthStore().token
  lsToken,               \* localStorage 'token'
  route,                 \* the page that is mounted
  navTo,                 \* target of a router.push that has not completed
  timers,                \* pending setTimeout redirects of the 401 handler
  loginPending,          \* Login.handleSubmit awaits the token endpoint
  loginError,            \* Login's error state
  isClient,
  crashed,               \* a render of Notes threw; the page is gone
  selectedNote,
  selectedCategory,
  newNoteMode,
  title,
  content,
  searchQuery,
  deleteDialogOpen,
  noteToDelete,
  newCategoryDialogOpen,
  cache,                 \* query cache: key -> data
  fetchSlot,             \* query cache: key -> slot of the fetch in progress
  net,                   \* requests and responses in flight, by slot
  toasted,               \* the toasts the last step showed
  srvNotes,              \* server: the user's notes, in list order
  srvCats,               \* server: categories of all users
  srvNow,                \* server clock
  nextNoteId,
  nextCatId,
  paginated,             \* server: list endpoints answer with a page object
  pc,                    \* position of the round-trip script
  seen                   \* what the round-trip script read last

authVars == <<token, lsToken, route, navTo, timers, loginPending, loginError>>
uiVars ==
  <<isClient, crashed, selectedNote, selectedCategory, newNoteMode, title, content,
    searchQuery, deleteDialogOpen, noteToDelete, newCategoryDialogOpen>>
queryVars == <<cache, fetchSlot>>
srvVars == <<srvNotes, srvCats, srvNow, nextNoteId, nextCatId, paginated>>
scriptVars == <<pc, seen>>
vars == <<authVars, uiVars, queryVars, net, toasted, srvVars, scriptVars>>

\* ------------------------------------------------------------ query cache
\* Query keys: ['categories'], ['notes'], and ['notes', selectedCategory?.id]
\* with 0 for undefined.  A key is looked up exactly (getQueryData,
\* setQueryData, useQuery) or by prefix (cancelQueries, invalidateQueries).
CategoriesKey == <<"categories">>
NotesRootKey == <<"notes">>
NotesKeyOf(sel) == <<"notes", IF IsSome(sel) THEN The(sel).id ELSE 0>>
QueryKeys ==
  {CategoriesKey, NotesRootKey} \cup {<<"notes", c>> : c \in 0..(MaxCat + 1)}
MatchesNotes(k) == k[1] = "notes"

EmptyArray == ListBody(FALSE, <<>>, 0)

\* const { data: categories = [] } = useQuery(...)
CategoriesOf(c) ==
  IF IsSome(c[CategoriesKey]) THEN The(c[CategoriesKey]) ELSE EmptyArray

\* const { data: notes = [] } = useQuery({queryKey: ['notes', selectedCategory?.id]})
NotesOf(c, sel) ==
  IF IsSome(c[NotesKeyOf(sel)]) THEN The(c[NotesKeyOf(sel)]) ELSE EmptyArray

categories == CategoriesOf(cache)
notes == NotesOf(cache, selectedCategory)

\* enabled: !!token && isClient
QueriesEnabled(tok, client) == IsSome(tok) /\ client

\* if (!isClient || !token) return null
RendersNothing(tok, client) == ~client \/ ~IsSome(tok)

\* A render of Notes throws: notes.filter runs before the early return,
\* categories.map after it, and neither exists on a page object.
RenderThrows(c, sel, tok, client) ==
  \/ NotesOf(c, sel).paged
  \/ ~RendersNothing(tok, client) /\ CategoriesOf(c).paged

\* The Notes component is mounted (a render that throws unmounts it).
Mounted == route = "/notes" /\ ~crashed

\* The Notes page is on screen and its handlers can be reached.
Visible == Mounted /\ ~RendersNothing(token, isClient)

\* The queries of the Notes page have an enabled observer.
Observing == Mounted /\ QueriesEnabled(token, isClient)

\* ------------------------------------------------------------------ view
NoteMatchesTitle(note, sel, q) ==
  /\ IF IsSome(sel) THEN note.category = The(sel).id ELSE TRUE
  /\ IF q # <<>>
       THEN Includes(ToLowerCase(note.title), ToLowerCase(q))
       ELSE TRUE

\* filteredNotes
NoteMatches(note, sel, q) ==
  /\ IF IsSome(sel) THEN note.category = The(sel).id ELSE TRUE
  /\ IF q # <<>>
       THEN \/ Includes(ToLowerCase(note.title), ToLowerCase(q))
            \/ Includes(ToLowerCase(note.content), ToLowerCase(q))
       ELSE TRUE

FilteredNotesOf(ns, sel, q) ==
  LET Keep(note) == NoteMatches(note, sel, q) IN SelectSeq(ns, Keep)

CompareNotesByTime(a, b) == GetTime(b.updated_at) - GetTime(a.updated_at)

\* The comparator of sortedNotes.
CompareNotes(a, b) ==
  IF a.is_pinned /\ ~b.is_pinned THEN -1
  ELSE IF ~a.is_pinned /\ b.is_pinned THEN 1
  ELSE GetTime(b.updated_at) - GetTime(a.updated_at)

\* Array.prototype.sort: a stable insertion by the comparator.
RECURSIVE InsertNote(_, _)
InsertNote(sorted, x) ==
  IF sorted = <<>> THEN <<x>>
  ELSE LET last == sorted[Len(sorted)] IN
       IF CompareNotes(x, last) < 0
         THEN InsertNote(SubSeq(sorted, 1, Len(sorted) - 1), x) \o <<last>>
         ELSE sorted \o <<x>>

RECURSIVE SortNotes(_)
SortNotes(ns) ==
  IF ns = <<>> THEN <<>>
  ELSE InsertNote(SortNotes(SubSeq(ns, 1, Len(ns) - 1)), ns[Len(ns)])

filteredNotes == FilteredNotesOf(notes.results, selectedCategory, searchQuery)
sortedNotes == SortNotes(filteredNotes)

\* ------------------------------------------------------- services/api.ts
\* A request or response in flight.  auth is the Authorization header;
\* sentWith records localStorage's token when the request was sent; ctx is
\* the mutation's context {previousNotes}, before the value the cache entry
\* had when onMutate started; detached marks a mutation whose component
\* has unmounted; dead a request whose page has been unloaded.  hist
\* records, for a mutation of the ['notes'] entry, whether it has been in
\* flight together with another one (overlapped) and the entry as it was
\* before the first of them, changed by those that have succeeded (want).
EmptyMsg ==
  [kind |-> "none", phase |-> "none", auth |-> None, sentWith |-> None,
   id |-> 0, data |-> None, page |-> None, pageSize |-> 0, key |-> <<>>,
   ctx |-> None, before |-> None, status |-> 0, body |-> None,
   detached |-> FALSE, dead |-> FALSE, hist |-> None]

NewRequest(kind, id, data) ==
  [EmptyMsg EXCEPT !.kind = kind, !.phase = "req", !.id = id, !.data = data]

RequestInterceptorAlways(config, ls) ==
  [config EXCEPT
     !.auth = Some(<<"Bearer", IF IsSome(ls) THEN The(ls) ELSE "null">>)]

\* api.interceptors.request
RequestInterceptor(config, ls) ==
  IF IsSome(ls) /\ The(ls) # ""
    THEN [config EXCEPT !.auth = Some(<<"Bearer", The(ls)>>)]
    ELSE config

\* getNotes(page = 1, pageSize = 20); a page that is no number is None.
getNotes(page, pageSize) ==
  [NewRequest("getNotes", 0, None) EXCEPT !.page = page, !.pageSize = pageSize]
createNote(data) == NewRequest("createNote", 0, Some(data))
updateNoteUntitled(id, data) ==
  NewRequest("updateNote", id, Some([data EXCEPT !.title = <<>>]))
updateNote(id, data) == NewRequest("updateNote", id, Some(data))
deleteNote(id) == NewRequest("deleteNote", id, None)
togglePinNote(id, isPinned) ==
  NewRequest("togglePinNote", id, Some([is_pinned |-> isPinned]))
getCategories == NewRequest("getCategories", 0, None)
createCategory(name) == NewRequest("createCategory", 0, Some([name |-> name]))
deleteCategory(id) == NewRequest("deleteCategory", id, None)

\* queryFn: getNotes is called with the query function context as its only
\* argument: the page is that object, the page size the default.
QueryFnNotes == getNotes(None, DefaultPageSize)
QueryFnCategories == getCategories

FreeSlots(n) == {s \in Slots : n[s].kind = "none"}
FirstFree(n) == CHOOSE s \in FreeSlots(n) : \A t \in FreeSlots(n) : s <= t

\* The request leaves through the request interceptor.
Send(n, m, ls) ==
  [n EXCEPT ![FirstFree(n)] =
     [RequestInterceptor(m, ls) EXCEPT !.sentWith = ls]]

InFlight(kind) == {s \in Slots : net[s].kind = kind /\ ~net[s].dead}

\* ----------------------------------------------------------- REST server
\* The server is not part of the client sources; it is modelled from the
\* specification: CRUD on notes and categories owned by the user, bearer
\* authentication, a foreign key from notes to categories.
Min(a, b) == IF a < b THEN a ELSE b

PageOf(items, page, size) ==
  LET p == IF IsSome(page) THEN The(page) ELSE DefaultPage
  IN SubSeq(items, (p - 1) * size + 1, Min(p * size, Len(items)))

SrvListBody(items, page, size) ==
  IF paginated
    THEN ListBody(TRUE, PageOf(items, page, size), Len(items))
    ELSE ListBody(FALSE, items, 0)

OwnCats(cats) == LET Mine(c) == c.user = Me IN SelectSeq(cats, Mine)
CatExists(cats, id) == \E i \in 1..Len(cats) : cats[i].id = id
NoteExists(ns, id) == \E i \in 1..Len(ns) : ns[i].id = id
NoteById(ns, id) == ns[CHOOSE i \in 1..Len(ns) : ns[i].id = id]
ReplaceNote(ns, n) == [i \in 1..Len(ns) |-> IF ns[i].id = n.id THEN n ELSE ns[i]]
RemoveNote(ns, id) == LET Keep(n) == n.id # id IN SelectSeq(ns, Keep)

Respond(s, status, body) ==
  net' = [net EXCEPT ![s] =
            IF @.dead THEN EmptyMsg
            ELSE [@ EXCEPT !.phase = "resp", !.status = status, !.body = body]]

\* The token is missing or no longer accepted.
SrvUnauthorized(s) ==
  /\ net[s].phase = "req"
  /\ Respond(s, Unauthorized, None)
  /\ toasted' = {}
  /\ UNCHANGED <<authVars, uiVars, queryVars, srvVars, scriptVars>>

\* The server fails (a status such as 500) or the request gets no response
\* (status 0: error.response is undefined).
SrvError(s, st) ==
  /\ net[s].phase = "req"
  /\ Respond(s, st, None)
  /\ toasted' = {}
  /\ UNCHANGED <<authVars, uiVars, queryVars, srvVars, scriptVars>>

SrvGetNotes(s) ==
  /\ net[s].kind = "getNotes"
  /\ Respond(s, 200, Some(SrvListBody(srvNotes, net[s].page, net[s].pageSize)))
  /\ UNCHANGED srvVars

SrvGetCategories(s) ==
  /\ net[s].kind = "getCategories"
  /\ Respond(s, 200, Some(SrvListBody(OwnCats(srvCats), None, DefaultPageSize)))
  /\ UNCHANGED srvVars

CategoryValid(k) == k = NullId \/ CatExists(srvCats, k)

SrvCreateNote(s) ==
  LET d == The(net[s].data)
      n == Note(nextNoteId, d.title, d.content, Stamp(srvNow), FALSE, d.category)
  IN /\ net[s].kind = "createNote"
     /\ IF CategoryValid(d.category)
          THEN /\ nextNoteId <= MaxNote
               /\ srvNotes' = Append(srvNotes, n)
               /\ nextNoteId' = nextNoteId + 1
               /\ Respond(s, 201, Some(n))
          ELSE /\ Respond(s, 400, None)
               /\ UNCHANGED <<srvNotes, nextNoteId>>
     /\ UNCHANGED <<srvCats, srvNow, nextCatId, paginated>>

SrvUpdateNote(s) ==
  LET d == The(net[s].data)
      old == NoteById(srvNotes, net[s].id)
      n == [old EXCEPT !.title = d.title, !.content = d.content,
                       !.category = d.category, !.updated_at = Stamp(srvNow)]
  IN /\ net[s].kind = "updateNote"
     /\ IF ~NoteExists(srvNotes, net[s].id)
          THEN Respond(s, 404, None) /\ UNCHANGED srvNotes
          ELSE IF ~CategoryValid(d.category)
            THEN Respond(s, 400, None) /\ UNCHANGED srvNotes
            ELSE srvNotes' = ReplaceNote(srvNotes, n) /\ Respond(s, 200, Some(n))
     /\ UNCHANGED <<srvCats, srvNow, nextNoteId, nextCatId, paginated>>

SrvTogglePin(s) ==
  LET old == NoteById(srvNotes, net[s].id)
      n == [old EXCEPT !.is_pinned = The(net[s].data).is_pinned,
                       !.updated_at = Stamp(srvNow)]
  IN /\ net[s].kind = "togglePinNote"
     /\ IF ~NoteExists(srvNotes, net[s].id)
          THEN Respond(s, 404, None) /\ UNCHANGED srvNotes
          ELSE srvNotes' = ReplaceNote(srvNotes, n) /\ Respond(s, 200, Some(n))
     /\ UNCHANGED <<srvCats, srvNow, nextNoteId, nextCatId, paginated>>

SrvDeleteNote(s) ==
  /\ net[s].kind = "deleteNote"
  /\ IF ~NoteExists(srvNotes, net[s].id)
       THEN Respond(s, 404, None) /\ UNCHANGED srvNotes
       ELSE srvNotes' = RemoveNote(srvNotes, net[s].id) /\ Respond(s, 204, None)
  /\ UNCHANGED <<srvCats, srvNow, nextNoteId, nextCatId, paginated>>

SrvCreateCategory(s) ==
  LET c == Category(nextCatId, The(net[s].data).name, Me)
  IN /\ net[s].kind = "createCategory"
     /\ nextCatId <= MaxCat
     /\ srvCats' = Append(srvCats, c)
     /\ nextCatId' = nextCatId + 1
     /\ Respond(s, 201, Some(c))
     /\ UNCHANGED <<srvNotes, srvNow, nextNoteId, paginated>>

\* The server does not refuse to delete a category that notes refer to
\* (the specification: the block is enforced in the UI layer); the foreign
\* key of those notes is set to null.
SrvDeleteCategory(s) ==
  LET id == net[s].id
      Keep(c) == ~(c.id = id /\ c.user = Me)
      Unlink(n) == IF n.category = id THEN [n EXCEPT !.category = NullId] ELSE n
  IN /\ net[s].kind = "deleteCategory"
     /\ IF ~CatExists(OwnCats(srvCats), id)
          THEN Respond(s, 404, None) /\ UNCHANGED <<srvCats, srvNotes>>
          ELSE /\ srvCats' = SelectSeq(srvCats, Keep)
               /\ srvNotes' = [i \in 1..Len(srvNotes) |-> Unlink(srvNotes[i])]
               /\ Respond(s, 204, None)
     /\ UNCHANGED <<srvNow, nextNoteId, nextCatId, paginated>>

\* The server handles an authenticated request.
SrvOk(s) ==
  /\ net[s].phase = "req"
  /\ IsSome(net[s].auth)
  /\ \/ SrvGetNotes(s)
     \/ SrvGetCategories(s)
     \/ SrvCreateNote(s)
     \/ SrvUpdateNote(s)
     \/ SrvTogglePin(s)
     \/ SrvDeleteNote(s)
     \/ SrvCreateCategory(s)
     \/ SrvDeleteCategory(s)
  /\ toasted' = {}
  /\ UNCHANGED <<authVars, uiVars, queryVars, scriptVars>>

Tick ==
  /\ srvNow < MaxTime
  /\ srvNow' = srvNow + 1
  /\ toasted' = {}
  /\ UNCHANGED <<authVars, uiVars, queryVars, net, scriptVars,
                 srvNotes, srvCats, nextNoteId, nextCatId, paginated>>

\* ------------------------------------------------------------ query client
\* The fetch state of the cache and the requests in flight, changed together.
QS(f, n) == [f |-> f, n |-> n]

\* An observer asks for the query's data: a fetch in progress is shared.
Fetch(qs, key, req, ls) ==
  IF qs.f[key] # 0 THEN qs
  ELSE QS([qs.f EXCEPT ![key] = FirstFree(qs.n)],
          Send(qs.n, [req EXCEPT !.key = key], ls))

\* refetch with cancelRefetch: a fetch in progress is abandoned (its
\* request stays in flight, its result is dropped) and a new one starts.
Refetch(qs, key, req, ls) ==
  QS([qs.f EXCEPT ![key] = FirstFree(qs.n)],
     Send(qs.n, [req EXCEPT !.key = key], ls))

\* queryClient.invalidateQueries({ queryKey: ['notes'] }): the active
\* notes query, if any, is fetched again.
InvalidateNotes(qs, ls) ==
  IF Observing
    THEN Refetch(qs, NotesKeyOf(selectedCategory), QueryFnNotes, ls)
    ELSE qs

\* queryClient.invalidateQueries({ queryKey: ['categories'] })
InvalidateCategories(qs, ls) ==
  IF Observing THEN Refetch(qs, CategoriesKey, QueryFnCategories, ls) ELSE qs

\* queryClient.cancelQueries({ queryKey: ['notes'] })
CancelNotes(f) == [k \in QueryKeys |-> IF MatchesNotes(k) THEN 0 ELSE f[k]]

\* The notes query follows selectedCategory: a new key is fetched.
FollowKey(qs, sel, ls) ==
  IF Observing /\ NotesKeyOf(sel) # NotesKeyOf(selectedCategory)
    THEN Fetch(qs, NotesKeyOf(sel), QueryFnNotes, ls)
    ELSE qs

Room(k) == Cardinality(FreeSlots(net)) >= k

\* After a handler the page renders again: a render that throws unmounts
\* it; the effect on [token] pushes /login when the token has gone.
Rerender ==
  /\ crashed' =
       (crashed \/ (route = "/notes"
                    /\ RenderThrows(cache', selectedCategory', token', isClient')))
  /\ navTo' = IF route = "/notes" /\ ~crashed' /\ token' # token /\ ~IsSome(token')
                THEN "/login" ELSE navTo

\* ------------------------------------------------------------- auth store
\* useAuthStore is not among the sources: login keeps the token in the
\* store and in localStorage, logout removes both.
StoreLogin(t) == token' = Some(t) /\ lsToken' = Some(t)
StoreLogout == token' = None /\ lsToken' = None

ResetUi ==
  /\ selectedNote' = None
  /\ selectedCategory' = None
  /\ newNoteMode' = FALSE
  /\ title' = <<>>
  /\ content' = <<>>
  /\ searchQuery' = <<>>
  /\ deleteDialogOpen' = FALSE
  /\ noteToDelete' = None
  /\ newCategoryDialogOpen' = FALSE

\* ------------------------------------------------------------- page cycle
Is2xx(st) == st \in 200..299

\* Login.handleSubmit, up to the await of fetch.
LoginSubmit ==
  /\ route = "/login"
  /\ ~loginPending
  /\ loginPending' = TRUE
  /\ toasted' = {}
  /\ UNCHANGED <<token, lsToken, route, navTo, timers, loginError, uiVars,
                 queryVars, net, srvVars, scriptVars>>

\* Login.handleSubmit, from the answer of the token endpoint on.
LoginOk(t) ==
  /\ loginPending
  /\ StoreLogin(t)
  /\ navTo' = "/notes"
  /\ loginPending' = FALSE
  /\ toasted' = {}
  /\ UNCHANGED <<route, timers, loginError, uiVars, queryVars, net, srvVars,
                 scriptVars>>

LoginRejectedNavigates(detail) ==
  /\ loginPending
  /\ loginError' = IF detail # "" THEN detail ELSE "Login failed"
  /\ navTo' = "/notes"
  /\ loginPending' = FALSE
  /\ toasted' = {}
  /\ UNCHANGED <<token, lsToken, route, timers, uiVars, queryVars, net,
                 srvVars, scriptVars>>

LoginRejected(detail) ==
  /\ loginPending
  /\ loginError' = IF detail # "" THEN detail ELSE "Login failed"
  /\ loginPending' = FALSE
  /\ toasted' = {}
  /\ UNCHANGED <<token, lsToken, route, navTo, timers, uiVars, queryVars, net,
                 srvVars, scriptVars>>

LoginThrows ==
  /\ loginPending
  /\ loginError' = "Login failed"
  /\ loginPending' = FALSE
  /\ toasted' = {}
  /\ UNCHANGED <<token, lsToken, route, navTo, timers, uiVars, queryVars, net,
                 srvVars, scriptVars>>

\* The browser's history takes the user back to the Notes page.
GoToNotes ==
  /\ route = "/login"
  /\ navTo = "none"
  /\ navTo' = "/notes"
  /\ toasted' = {}
  /\ UNCHANGED <<token, lsToken, route, timers, loginPending, loginError,
                 uiVars, queryVars, net, srvVars, scriptVars>>

Detach(n) ==
  [s \in Slots |->
     IF n[s].kind \in {"none", "getNotes", "getCategories"} THEN n[s]
     ELSE [n[s] EXCEPT !.detached = TRUE]]

\* A router.push completes.  Notes mounts with its initial state; its
\* effect sets isClient and pushes /login without a token; its queries,
\* once enabled, fetch.
Navigate ==
  /\ navTo # "none"
  /\ navTo # route
  /\ route' = navTo
  /\ ResetUi
  /\ loginError' = ""
  /\ toasted' = {}
  /\ IF navTo = "/notes"
       THEN LET throws == RenderThrows(cache, None, token, TRUE)
                on == QueriesEnabled(token, TRUE) /\ ~throws
                q1 == Fetch(QS(fetchSlot, Detach(net)), CategoriesKey,
                            QueryFnCategories, lsToken)
                q2 == Fetch(q1, NotesKeyOf(None), QueryFnNotes, lsToken)
            IN /\ on => Room(2)
               /\ isClient' = TRUE
               /\ crashed' = throws
               /\ navTo' = IF ~throws /\ ~IsSome(token) THEN "/login" ELSE "none"
               /\ fetchSlot' = IF on THEN q2.f ELSE fetchSlot
               /\ net' = IF on THEN q2.n ELSE Detach(net)
       ELSE /\ isClient' = FALSE
            /\ crashed' = FALSE
            /\ navTo' = "none"
            /\ net' = Detach(net)
            /\ UNCHANGED fetchSlot
  /\ UNCHANGED <<token, lsToken, timers, loginPending, cache, srvVars,
                 scriptVars>>

\* A router.push to the page that is already shown mounts nothing.
NavigateInPlace ==
  /\ navTo = route
  /\ navTo' = "none"
  /\ toasted' = {}
  /\ UNCHANGED <<token, lsToken, route, timers, loginPending, loginError,
                 uiVars, queryVars, net, srvVars, scriptVars>>

\* handleLogout
handleLogout ==
  /\ Visible
  /\ StoreLogout
  /\ navTo' = "/login"
  /\ toasted' = {}
  /\ UNCHANGED <<route, timers, loginPending, loginError, uiVars, queryVars,
                 net, srvVars, scriptVars>>

\* localStorage belongs to the origin: the 401 handler of another tab of
\* the application removes the token from it; the store of this tab keeps
\* its own.
StorageCleared ==
  /\ IsSome(lsToken)
  /\ lsToken' = None
  /\ toasted' = {}
  /\ UNCHANGED <<token, route, navTo, timers, loginPending, loginError, uiVars,
                 queryVars, net, srvVars, scriptVars>>

\* setTimeout(() => { window.location.href = '/login' }, 1500): the
\* document is replaced, and with it the cache, the component state, the
\* timers and the handlers of the requests in flight; the store starts
\* again from localStorage.
Unload(n) ==
  [s \in Slots |-> IF n[s].phase = "req" THEN [n[s] EXCEPT !.dead = TRUE]
                   ELSE EmptyMsg]

RedirectTimer ==
  /\ timers > 0
  /\ route' = "/login"
  /\ navTo' = "none"
  /\ timers' = 0
  /\ token' = lsToken
  /\ loginPending' = FALSE
  /\ loginError' = ""
  /\ ResetUi
  /\ isClient' = FALSE
  /\ crashed' = FALSE
  /\ cache' = [k \in QueryKeys |-> None]
  /\ fetchSlot' = [k \in QueryKeys |-> 0]
  /\ net' = Unload(net)
  /\ toasted' = {}
  /\ UNCHANGED <<lsToken, srvVars, scriptVars>>

\* ---------------------------------------------------- responses: queries
\* api.interceptors.response, the error handler: what a 401 does to the
\* token, the store and the timers.
InterceptKeepsToken(m) ==
  /\ m.status = Unauthorized => timers < MaxTimers
  /\ UNCHANGED <<token, lsToken>>
  /\ timers' = IF m.status = Unauthorized THEN timers + 1 ELSE timers

InterceptStoreOnly(m) ==
  /\ m.status = Unauthorized => timers < MaxTimers
  /\ token' = IF m.status = Unauthorized THEN None ELSE token
  /\ lsToken' = lsToken
  /\ timers' = IF m.status = Unauthorized THEN timers + 1 ELSE timers

InterceptAnyError(m) ==
  /\ ~Is2xx(m.status) => timers < MaxTimers
  /\ IF ~Is2xx(m.status) THEN StoreLogout ELSE UNCHANGED <<token, lsToken>>
  /\ timers' = IF ~Is2xx(m.status) THEN timers + 1 ELSE timers

Intercept(m) ==
  /\ m.status = Unauthorized => timers < MaxTimers
  /\ IF m.status = Unauthorized THEN StoreLogout ELSE UNCHANGED <<token, lsToken>>
  /\ timers' = IF m.status = Unauthorized THEN timers + 1 ELSE timers

SessionToast(m) ==
  IF m.status = Unauthorized THEN {"Session Expired"} ELSE {}

Delivering(s, kind) ==
  net[s].kind = kind /\ net[s].phase = "resp" /\ ~net[s].dead

\* The answer to getNotes or getCategories arrives.  The interceptor runs
\* on every response; the data goes to the cache only if the fetch that
\* asked for it is still the query's current one.
DeliverQuery(s) ==
  LET m == net[s] IN
  /\ Delivering(s, "getNotes") \/ Delivering(s, "getCategories")
  /\ Intercept(m)
  /\ toasted' = SessionToast(m)
  /\ net' = [net EXCEPT ![s] = EmptyMsg]
  /\ IF fetchSlot[m.key] = s
       THEN /\ fetchSlot' = [fetchSlot EXCEPT ![m.key] = 0]
            /\ cache' = IF Is2xx(m.status)
                          THEN [cache EXCEPT ![m.key] = m.body]
                          ELSE cache
       ELSE UNCHANGED <<cache, fetchSlot>>
  /\ UNCHANGED <<isClient, selectedNote, selectedCategory, newNoteMode, title,
                 content, searchQuery, deleteDialogOpen, noteToDelete,
                 newCategoryDialogOpen>>
  /\ Rerender
  /\ UNCHANGED <<route, loginPending, loginError, srvVars, scriptVars>>

\* ------------------------------------------------------ Notes: handlers
uiFrame == <<token, lsToken, route, navTo, timers, loginPending, loginError,
             isClient, crashed, srvVars, scriptVars>>

\* handleNewNote
handleNewNote ==
  /\ Visible
  /\ newNoteMode' = TRUE
  /\ selectedNote' = None
  /\ title' = <<>>
  /\ content' = <<>>
  /\ toasted' = {}
  /\ UNCHANGED <<selectedCategory, searchQuery, deleteDialogOpen, noteToDelete,
                 newCategoryDialogOpen, queryVars, net, uiFrame>>

\* onChange of the title input (disabled unless newNoteMode)
SetTitle(t) ==
  /\ Visible
  /\ newNoteMode
  /\ title' = t
  /\ toasted' = {}
  /\ UNCHANGED <<selectedNote, selectedCategory, newNoteMode, content,
                 searchQuery, deleteDialogOpen, noteToDelete,
                 newCategoryDialogOpen, queryVars, net, uiFrame>>

\* onChange of the content textarea (disabled unless newNoteMode)
SetContent(c) ==
  /\ Visible
  /\ newNoteMode
  /\ content' = c
  /\ toasted' = {}
  /\ UNCHANGED <<selectedNote, selectedCategory, newNoteMode, title,
                 searchQuery, deleteDialogOpen, noteToDelete,
                 newCategoryDialogOpen, queryVars, net, uiFrame>>

\* onChange of the search input
SetSearchQuery(q) ==
  /\ Visible
  /\ searchQuery' = q
  /\ toasted' = {}
  /\ UNCHANGED <<selectedNote, selectedCategory, newNoteMode, title, content,
                 deleteDialogOpen, noteToDelete, newCategoryDialogOpen,
                 queryVars, net, uiFrame>>

\* onClick of a note of the list
ClickNote(i) ==
  /\ Visible
  /\ i \in 1..Len(sortedNotes)
  /\ selectedNote' = Some(sortedNotes[i])
  /\ newNoteMode' = FALSE
  /\ toasted' = {}
  /\ UNCHANGED <<selectedCategory, title, content, searchQuery,
                 deleteDialogOpen, noteToDelete, newCategoryDialogOpen,
                 queryVars, net, uiFrame>>

\* handleEditNote(selectedNote), the pencil button
handleEditNote ==
  /\ Visible
  /\ ~newNoteMode
  /\ IsSome(selectedNote)
  /\ newNoteMode' = TRUE
  /\ title' = The(selectedNote).title
  /\ content' = The(selectedNote).content
  /\ toasted' = {}
  /\ UNCHANGED <<selectedNote, selectedCategory, searchQuery, deleteDialogOpen,
                 noteToDelete, newCategoryDialogOpen, queryVars, net, uiFrame>>

\* Cancel of the editor footer
CancelEdit ==
  /\ Visible
  /\ newNoteMode
  /\ newNoteMode' = FALSE
  /\ toasted' = {}
  /\ UNCHANGED <<selectedNote, selectedCategory, title, content, searchQuery,
                 deleteDialogOpen, noteToDelete, newCategoryDialogOpen,
                 queryVars, net, uiFrame>>

\* setSelectedCategory(sel) and what the render after it does: the notes
\* query moves to the key of the new category.
ChooseCategory(sel) ==
  LET qs == FollowKey(QS(fetchSlot, net), sel, lsToken) IN
  /\ (Observing /\ NotesKeyOf(sel) # NotesKeyOf(selectedCategory)
        /\ fetchSlot[NotesKeyOf(sel)] = 0) => Room(1)
  /\ selectedCategory' = sel
  /\ fetchSlot' = qs.f
  /\ net' = qs.n
  /\ toasted' = {}
  /\ UNCHANGED <<selectedNote, newNoteMode, title, content, searchQuery,
                 deleteDialogOpen, noteToDelete, newCategoryDialogOpen, cache,
                 token, lsToken, route, timers, loginPending, loginError,
                 isClient, srvVars, scriptVars>>
  /\ Rerender

\* onClick of All Notes
SelectAllNotes == Visible /\ ChooseCategory(None)

\* onClick of a category of the sidebar
SelectCategory(i) ==
  /\ Visible
  /\ i \in 1..Len(categories.results)
  /\ ChooseCategory(Some(categories.results[i]))

EditorSelectUnchecked(value) ==
  /\ Visible
  /\ newNoteMode
  /\ ChooseCategory(IF value = NullId THEN None
                    ELSE Some(Category(value, <<>>, Me)))

\* onChange of the editor's category select: value is '' or a category id
EditorSelectCategory(value) ==
  LET found == {i \in 1..Len(categories.results) :
                  categories.results[i].id = value}
  IN /\ Visible
     /\ newNoteMode
     /\ value = NullId \/ found # {}
     /\ ChooseCategory(IF found = {} THEN None
                       ELSE Some(categories.results[CHOOSE i \in found : TRUE]))

NoteDataUntrimmed ==
  [title |-> IF Trim(title) # <<>> THEN title ELSE UntitledNote,
   content |-> Trim(content),
   category |-> IF IsSome(selectedCategory) /\ The(selectedCategory).id # 0
                  THEN The(selectedCategory).id ELSE NullId]

\* handleSave
NoteData ==
  [title |-> IF Trim(title) # <<>> THEN Trim(title) ELSE UntitledNote,
   content |-> Trim(content),
   category |-> IF IsSome(selectedCategory) /\ The(selectedCategory).id # 0
                  THEN The(selectedCategory).id ELSE NullId]

SaveRequestCreates == createNote(NoteData)

SaveRequest ==
  IF IsSome(selectedNote) /\ newNoteMode
    THEN updateNote(The(selectedNote).id, NoteData)
    ELSE createNote(NoteData)

handleSave ==
  /\ Visible
  /\ newNoteMode
  /\ IF Trim(title) # <<>> \/ Trim(content) # <<>>
       THEN Room(1) /\ net' = Send(net, SaveRequest, lsToken)
       ELSE UNCHANGED net
  /\ toasted' = {}
  /\ UNCHANGED <<selectedNote, selectedCategory, newNoteMode, title, content,
                 searchQuery, deleteDialogOpen, noteToDelete,
                 newCategoryDialogOpen, queryVars, uiFrame>>

\* handleDeleteNote(selectedNote), the trash button of the editor
handleDeleteNote ==
  /\ Visible
  /\ IsSome(selectedNote)
  /\ noteToDelete' = selectedNote
  /\ deleteDialogOpen' = TRUE
  /\ toasted' = {}
  /\ UNCHANGED <<selectedNote, selectedCategory, newNoteMode, title, content,
                 searchQuery, newCategoryDialogOpen, queryVars, net, uiFrame>>

\* mutation.isPending of the component's mutation observer
Pending(kind) == \E s \in InFlight(kind) : ~net[s].detached

\* Cancel of the delete dialog
CancelDelete ==
  /\ Visible
  /\ deleteDialogOpen
  /\ ~Pending("deleteNote")
  /\ deleteDialogOpen' = FALSE
  /\ toasted' = {}
  /\ UNCHANGED <<selectedNote, selectedCategory, newNoteMode, title, content,
                 searchQuery, noteToDelete, newCategoryDialogOpen, queryVars,
                 net, uiFrame>>

\* onMutate of deleteNoteMutation and togglePinMutation: the snapshot of
\* the ['notes'] entry and its optimistic replacement.
PreviousNotes(c) == c[NotesRootKey]
OldNotes(c) == IF IsSome(c[NotesRootKey]) THEN The(c[NotesRootKey]).results ELSE <<>>

OptimisticDelete(c, deleteId) ==
  LET Keep(note) == note.id # deleteId IN
  [c EXCEPT ![NotesRootKey] =
     Some(ListBody(FALSE, SelectSeq(OldNotes(c), Keep), 0))]

OptimisticPinAll(c, id, isPinned) ==
  LET Pin(note) == [note EXCEPT !.is_pinned = isPinned]
  IN [c EXCEPT ![NotesRootKey] =
        Some(ListBody(FALSE, [i \in 1..Len(OldNotes(c)) |-> Pin(OldNotes(c)[i])], 0))]

OptimisticPin(c, id, isPinned) ==
  LET Pin(note) == IF note.id = id THEN [note EXCEPT !.is_pinned = isPinned]
                   ELSE note
  IN [c EXCEPT ![NotesRootKey] =
        Some(ListBody(FALSE, [i \in 1..Len(OldNotes(c)) |-> Pin(OldNotes(c)[i])], 0))]

\* The ['notes'] entry after the optimistic update of the mutation m.
OptimisticEntry(m, entry) ==
  LET c == [cache EXCEPT ![NotesRootKey] = entry]
  IN IF m.kind = "deleteNote"
       THEN OptimisticDelete(c, m.id)[NotesRootKey]
       ELSE OptimisticPin(c, m.id, The(m.data).is_pinned)[NotesRootKey]

\* The mutations of the ['notes'] entry that have not settled.
CacheMutations(n) == {t \in Slots : IsSome(n[t].hist) /\ ~n[t].dead}

Mutation(req, c) ==
  LET others == CacheMutations(net)
  IN [req EXCEPT
        !.ctx = PreviousNotes(c),
        !.before = c[NotesRootKey],
        !.hist = IF others = {}
                   THEN Some([want |-> c[NotesRootKey], overlapped |-> FALSE])
                   ELSE Some([want |-> The(net[CHOOSE t \in others : TRUE].hist).want,
                              overlapped |-> TRUE])]

confirmDeleteUnasked ==
  /\ Visible
  /\ ~Pending("deleteNote")
  /\ deleteDialogOpen' = FALSE
  /\ IF IsSome(noteToDelete)
       THEN /\ Room(1)
            /\ fetchSlot' = CancelNotes(fetchSlot)
            /\ cache' = OptimisticDelete(cache, The(noteToDelete).id)
            /\ net' = Send(net, Mutation(deleteNote(The(noteToDelete).id), cache),
                           lsToken)
       ELSE UNCHANGED <<fetchSlot, cache, net>>
  /\ toasted' = {}
  /\ UNCHANGED <<selectedNote, selectedCategory, newNoteMode, title, content,
                 searchQuery, noteToDelete, newCategoryDialogOpen, token,
                 lsToken, route, timers, loginPending, loginError, isClient,
                 srvVars, scriptVars>>
  /\ Rerender

\* Delete of the delete dialog: confirmDelete; the dialog's action button
\* closes the dialog.
confirmDelete ==
  /\ Visible
  /\ deleteDialogOpen
  /\ ~Pending("deleteNote")
  /\ deleteDialogOpen' = FALSE
  /\ IF IsSome(noteToDelete)
       THEN /\ Room(1)
            /\ fetchSlot' = CancelNotes(fetchSlot)
            /\ cache' = OptimisticDelete(cache, The(noteToDelete).id)
            /\ net' = Send(net, Mutation(deleteNote(The(noteToDelete).id), cache),
                           lsToken)
       ELSE UNCHANGED <<fetchSlot, cache, net>>
  /\ toasted' = {}
  /\ UNCHANGED <<selectedNote, selectedCategory, newNoteMode, title, content,
                 searchQuery, noteToDelete, newCategoryDialogOpen, token,
                 lsToken, route, timers, loginPending, loginError, isClient,
                 srvVars, scriptVars>>
  /\ Rerender

handleTogglePinEnabled ==
  LET note == The(selectedNote) IN
  /\ Visible
  /\ IsSome(selectedNote)
  /\ Room(1)
  /\ fetchSlot' = CancelNotes(fetchSlot)
  /\ cache' = OptimisticPin(cache, note.id, ~note.is_pinned)
  /\ net' = Send(net, Mutation(togglePinNote(note.id, ~note.is_pinned), cache),
                 lsToken)
  /\ toasted' = {}
  /\ UNCHANGED <<selectedNote, selectedCategory, newNoteMode, title, content,
                 searchQuery, deleteDialogOpen, noteToDelete,
                 newCategoryDialogOpen, token, lsToken, route, timers,
                 loginPending, loginError, isClient, srvVars, scriptVars>>
  /\ Rerender

\* handleTogglePin(selectedNote), the pin button of the editor
handleTogglePin ==
  LET note == The(selectedNote) IN
  /\ Visible
  /\ IsSome(selectedNote)
  /\ ~Pending("togglePinNote")
  /\ Room(1)
  /\ fetchSlot' = CancelNotes(fetchSlot)
  /\ cache' = OptimisticPin(cache, note.id, ~note.is_pinned)
  /\ net' = Send(net, Mutation(togglePinNote(note.id, ~note.is_pinned), cache),
                 lsToken)
  /\ toasted' = {}
  /\ UNCHANGED <<selectedNote, selectedCategory, newNoteMode, title, content,
                 searchQuery, deleteDialogOpen, noteToDelete,
                 newCategoryDialogOpen, token, lsToken, route, timers,
                 loginPending, loginError, isClient, srvVars, scriptVars>>
  /\ Rerender

\* The + buttons of the sidebar
OpenNewCategoryDialog ==
  /\ Visible
  /\ ~newCategoryDialogOpen
  /\ newCategoryDialogOpen' = TRUE
  /\ toasted' = {}
  /\ UNCHANGED <<selectedNote, selectedCategory, newNoteMode, title, content,
                 searchQuery, deleteDialogOpen, noteToDelete, queryVars, net,
                 uiFrame>>

\* Cancel of NewCategoryDialog
CloseNewCategoryDialog ==
  /\ Visible
  /\ newCategoryDialogOpen
  /\ newCategoryDialogOpen' = FALSE
  /\ toasted' = {}
  /\ UNCHANGED <<selectedNote, selectedCategory, newNoteMode, title, content,
                 searchQuery, deleteDialogOpen, noteToDelete, queryVars, net,
                 uiFrame>>

\* Create of NewCategoryDialog with categoryName typed: onConfirm is
\* handleCreateCategory; the dialog's action button closes the dialog.
handleCreateCategory(name) ==
  /\ Visible
  /\ newCategoryDialogOpen
  /\ newCategoryDialogOpen' = FALSE
  /\ IF Trim(name) # <<>>
       THEN Room(1) /\ net' = Send(net, createCategory(Trim(name)), lsToken)
       ELSE UNCHANGED net
  /\ toasted' = {}
  /\ UNCHANGED <<selectedNote, selectedCategory, newNoteMode, title, content,
                 searchQuery, deleteDialogOpen, noteToDelete, queryVars,
                 uiFrame>>

\* handleDeleteCategory(category.id), the trash button of a category
NotesInCategory(categoryId) ==
  Cardinality({i \in 1..Len(notes.results) :
                 notes.results[i].category = categoryId})

handleDeleteCategory(i) ==
  LET categoryId == categories.results[i].id IN
  /\ Visible
  /\ i \in 1..Len(categories.results)
  /\ IF NotesInCategory(categoryId) > 0
       THEN /\ toasted' = {"Cannot Delete Category"}
            /\ UNCHANGED net
       ELSE /\ Room(1)
            /\ net' = Send(net, deleteCategory(categoryId), lsToken)
            /\ toasted' = {}
  /\ UNCHANGED <<selectedNote, selectedCategory, newNoteMode, title, content,
                 searchQuery, deleteDialogOpen, noteToDelete,
                 newCategoryDialogOpen, queryVars, uiFrame>>

\* -------------------------------------------------- responses: mutations
deliverFrame == <<route, loginPending, loginError, isClient, srvVars, scriptVars>>

\* A setState of a callback reaches the component only while the instance
\* that started the mutation is mounted.
Live(m) == ~m.detached /\ Mounted

\* The response in slot s has been handled; the mutations of the
\* ['notes'] entry still in flight have overlapped with it.
Freed(s) ==
  [t \in Slots |->
     IF t = s THEN EmptyMsg
     ELSE IF IsSome(net[s].hist) /\ IsSome(net[t].hist)
       THEN [net[t] EXCEPT
               !.hist = Some([want |-> IF Is2xx(net[s].status)
                                         THEN OptimisticEntry(net[s], The(@).want)
                                         ELSE The(@).want,
                              overlapped |-> TRUE])]
       ELSE net[t]]

\* createNoteMutation: onSuccess; there is no onError.
DeliverCreateNote(s) ==
  LET m == net[s]
      qs == InvalidateNotes(QS(fetchSlot, Freed(s)), lsToken)
  IN /\ Delivering(s, "createNote")
     /\ Intercept(m)
     /\ IF Is2xx(m.status)
          THEN /\ fetchSlot' = qs.f
               /\ net' = qs.n
               /\ IF Live(m)
                    THEN /\ newNoteMode' = FALSE
                         /\ selectedNote' = m.body
                         /\ title' = <<>>
                         /\ content' = <<>>
                    ELSE UNCHANGED <<newNoteMode, selectedNote, title, content>>
               /\ toasted' = {"Note Created"}
          ELSE /\ net' = Freed(s)
               /\ toasted' = SessionToast(m)
               /\ UNCHANGED <<fetchSlot, newNoteMode, selectedNote, title, content>>
     /\ UNCHANGED <<cache, selectedCategory, searchQuery, deleteDialogOpen,
                    noteToDelete, newCategoryDialogOpen, deliverFrame>>
     /\ Rerender

\* updateNoteMutation: onSuccess; there is no onError.
DeliverUpdateNote(s) ==
  LET m == net[s]
      qs == InvalidateNotes(QS(fetchSlot, Freed(s)), lsToken)
  IN /\ Delivering(s, "updateNote")
     /\ Intercept(m)
     /\ IF Is2xx(m.status)
          THEN /\ fetchSlot' = qs.f
               /\ net' = qs.n
               /\ IF Live(m)
                    THEN newNoteMode' = FALSE /\ selectedNote' = m.body
                    ELSE UNCHANGED <<newNoteMode, selectedNote>>
               /\ toasted' = {"Note Updated"}
          ELSE /\ net' = Freed(s)
               /\ toasted' = SessionToast(m)
               /\ UNCHANGED <<fetchSlot, newNoteMode, selectedNote>>
     /\ UNCHANGED <<cache, selectedCategory, title, content, searchQuery,
                    deleteDialogOpen, noteToDelete, newCategoryDialogOpen,
                    deliverFrame>>
     /\ Rerender

\* onError of deleteNoteMutation and togglePinMutation:
\* if (context?.previousNotes) setQueryData(['notes'], context.previousNotes)
Rollback(c, ctx) == IF IsSome(ctx) THEN [c EXCEPT ![NotesRootKey] = ctx] ELSE c

\* deleteNoteMutation: onSuccess, onError.
DeliverDeleteNote(s) ==
  LET m == net[s]
      qs == InvalidateNotes(QS(fetchSlot, Freed(s)), lsToken)
  IN /\ Delivering(s, "deleteNote")
     /\ Intercept(m)
     /\ IF Is2xx(m.status)
          THEN /\ fetchSlot' = qs.f
               /\ net' = qs.n
               /\ IF Live(m)
                    THEN /\ selectedNote' = None
                         /\ noteToDelete' = None
                         /\ deleteDialogOpen' = FALSE
                    ELSE UNCHANGED <<selectedNote, noteToDelete, deleteDialogOpen>>
               /\ toasted' = {"Note Deleted"}
               /\ UNCHANGED cache
          ELSE /\ net' = Freed(s)
               /\ cache' = Rollback(cache, m.ctx)
               /\ toasted' = SessionToast(m) \cup {"Failed to delete note"}
               /\ UNCHANGED <<fetchSlot, selectedNote, noteToDelete,
                              deleteDialogOpen>>
     /\ UNCHANGED <<selectedCategory, newNoteMode, title, content, searchQuery,
                    newCategoryDialogOpen, deliverFrame>>
     /\ Rerender

\* togglePinMutation: onSuccess, onError; handleTogglePin's catch shows the
\* error toast a second time.
DeliverTogglePin(s) ==
  LET m == net[s]
      qs == InvalidateNotes(QS(fetchSlot, Freed(s)), lsToken)
  IN /\ Delivering(s, "togglePinNote")
     /\ Intercept(m)
     /\ IF Is2xx(m.status)
          THEN /\ fetchSlot' = qs.f
               /\ net' = qs.n
               /\ IF Live(m) /\ IsSome(selectedNote)
                     /\ The(selectedNote).id = The(m.body).id
                    THEN selectedNote' = m.body
                    ELSE UNCHANGED selectedNote
               /\ toasted' = {IF The(m.body).is_pinned THEN "Note Pinned"
                              ELSE "Note Unpinned"}
               /\ UNCHANGED cache
          ELSE /\ net' = Freed(s)
               /\ cache' = Rollback(cache, m.ctx)
               /\ toasted' = SessionToast(m) \cup {"Failed to update pin status"}
               /\ UNCHANGED <<fetchSlot, selectedNote>>
     /\ UNCHANGED <<selectedCategory, newNoteMode, title, content, searchQuery,
                    deleteDialogOpen, noteToDelete, newCategoryDialogOpen,
                    deliverFrame>>
     /\ Rerender

\* createCategoryMutation: onSuccess; there is no onError.
DeliverCreateCategory(s) ==
  LET m == net[s]
      qs == InvalidateCategories(QS(fetchSlot, Freed(s)), lsToken)
  IN /\ Delivering(s, "createCategory")
     /\ Intercept(m)
     /\ IF Is2xx(m.status)
          THEN /\ fetchSlot' = qs.f
               /\ net' = qs.n
               /\ newCategoryDialogOpen' =
                    IF Live(m) THEN FALSE ELSE newCategoryDialogOpen
               /\ toasted' = {"Category Created"}
          ELSE /\ net' = Freed(s)
               /\ toasted' = SessionToast(m)
               /\ UNCHANGED <<fetchSlot, newCategoryDialogOpen>>
     /\ UNCHANGED <<cache, selectedNote, selectedCategory, newNoteMode, title,
                    content, searchQuery, deleteDialogOpen, noteToDelete,
                    deliverFrame>>
     /\ Rerender

\* deleteCategoryMutation: onSuccess; there is no onError.  Clearing
\* selectedCategory moves the notes query to the key of no category.
DeliverDeleteCategory(s) ==
  LET m == net[s]
      clear == Live(m) /\ IsSome(selectedCategory)
      q1 == InvalidateCategories(QS(fetchSlot, Freed(s)), lsToken)
      q2 == IF clear THEN FollowKey(q1, None, lsToken) ELSE q1
  IN /\ Delivering(s, "deleteCategory")
     /\ Intercept(m)
     /\ IF Is2xx(m.status)
          THEN /\ Observing /\ clear => Room(1)
               /\ fetchSlot' = q2.f
               /\ net' = q2.n
               /\ selectedCategory' = IF clear THEN None ELSE selectedCategory
               /\ toasted' = {"Category Deleted"}
          ELSE /\ net' = Freed(s)
               /\ toasted' = SessionToast(m)
               /\ UNCHANGED <<fetchSlot, selectedCategory>>
     /\ UNCHANGED <<cache, selectedNote, newNoteMode, title, content,
                    searchQuery, deleteDialogOpen, noteToDelete,
                    newCategoryDialogOpen, deliverFrame>>
     /\ Rerender

\* ------------------------------------------------------------------ start
\* The server's data when the browser session starts.
FirstNote == Note(1, <<"a">>, <<"b">>, Stamp(0), FALSE, 1)
OwnCat == Category(1, <<"w">>, Me)
ForeignCat == Category(MaxCat + 1, <<"w">>, Other)

InitClient ==
  /\ token = None
  /\ lsToken = None
  /\ route = "/login"
  /\ navTo = "none"
  /\ timers = 0
  /\ loginPending = FALSE
  /\ loginError = ""
  /\ isClient = FALSE
  /\ crashed = FALSE
  /\ selectedNote = None
  /\ selectedCategory = None
  /\ newNoteMode = FALSE
  /\ title = <<>>
  /\ content = <<>>
  /\ searchQuery = <<>>
  /\ deleteDialogOpen = FALSE
  /\ noteToDelete = None
  /\ newCategoryDialogOpen = FALSE
  /\ cache = [k \in QueryKeys |-> None]
  /\ fetchSlot = [k \in QueryKeys |-> 0]
  /\ net = [s \in Slots |-> EmptyMsg]
  /\ toasted = {}
  /\ pc = "idle"
  /\ seen = None

Init ==
  /\ InitClient
  /\ srvNotes = <<FirstNote>>
  /\ srvCats = <<OwnCat, ForeignCat>>
  /\ srvNow = 0
  /\ nextNoteId = 2
  /\ nextCatId = 2
  /\ paginated \in BOOLEAN

Login ==
  \/ LoginSubmit
  \/ \E t \in Tokens : LoginOk(t)
  \/ \E d \in {"", "No active account"} : LoginRejected(d)
  \/ LoginThrows

NextAuth ==
  \/ Login
  \/ GoToNotes
  \/ Navigate
  \/ NavigateInPlace
  \/ handleLogout
  \/ StorageCleared
  \/ RedirectTimer
  \/ \E s \in Slots : SrvOk(s) \/ SrvUnauthorized(s)
  \/ \E s \in Slots : DeliverQuery(s) \/ DeliverCreateCategory(s)
  \/ OpenNewCategoryDialog
  \/ handleCreateCategory(<<"w">>)

SpecAuth == Init /\ [][NextAuth]_vars /\ WF_vars(RedirectTimer)

\* The session right after a login: the Notes page has mounted and its two
\* queries are on their way.
SessionQueries ==
  Fetch(Fetch(QS([k \in QueryKeys |-> 0], [s \in Slots |-> EmptyMsg]),
              CategoriesKey, QueryFnCategories, Some("jwt1")),
        NotesKeyOf(None), QueryFnNotes, Some("jwt1"))

\* The Notes page as it mounts after a login.
InitPage ==
  /\ token = Some("jwt1")
  /\ lsToken = Some("jwt1")
  /\ route = "/notes"
  /\ navTo = "none"
  /\ timers = 0
  /\ loginPending = FALSE
  /\ loginError = ""
  /\ isClient = TRUE
  /\ crashed = FALSE
  /\ selectedNote = None
  /\ selectedCategory = None
  /\ newNoteMode = FALSE
  /\ title = <<>>
  /\ content = <<>>
  /\ searchQuery = <<>>
  /\ deleteDialogOpen = FALSE
  /\ noteToDelete = None
  /\ newCategoryDialogOpen = FALSE
  /\ toasted = {}
  /\ pc = "idle"
  /\ seen = None

InitBrowser ==
  /\ InitPage
  /\ cache = [k \in QueryKeys |-> None]
  /\ fetchSlot = SessionQueries.f
  /\ net = SessionQueries.n

InitSession ==
  /\ InitBrowser
  /\ srvNotes = <<FirstNote>>
  /\ srvCats = <<OwnCat, ForeignCat>>
  /\ srvNow = 0
  /\ nextNoteId = 2
  /\ nextCatId = 2
  /\ paginated \in BOOLEAN

\* Pinning and deleting the notes of the list.
Next ==
  \/ \E s \in Slots : SrvOk(s) \/ SrvUnauthorized(s) \/ SrvError(s, 500)
  \/ \E s \in Slots : DeliverQuery(s) \/ DeliverDeleteNote(s) \/ DeliverTogglePin(s)
  \/ \E i \in 1..MaxNote : ClickNote(i)
  \/ handleDeleteNote
  \/ CancelDelete
  \/ confirmDelete
  \/ handleTogglePin
  \/ Navigate
  \/ RedirectTimer

Spec == InitSession /\ [][Next]_vars
\* Organising: categories are created, selected and deleted.
NextCategories ==
  \/ \E s \in Slots : SrvOk(s) \/ SrvError(s, 500)
  \/ \E s \in Slots :
       DeliverQuery(s) \/ DeliverCreateCategory(s) \/ DeliverDeleteCategory(s)
  \/ SelectAllNotes
  \/ \E i \in 1..MaxCat : SelectCategory(i) \/ handleDeleteCategory(i)
  \/ OpenNewCategoryDialog
  \/ CloseNewCategoryDialog
  \/ handleCreateCategory(<<"w">>)

SpecCategories == InitSession /\ [][NextCategories]_vars

\* Writing: a note is created and edited in the editor, with the category
\* of the editor's select, while categories are deleted.  The
\* account has no note left; the ids below MaxNote have been used.
InitWriting ==
  /\ InitBrowser
  /\ srvNotes = <<>>
  /\ srvCats = <<OwnCat, ForeignCat>>
  /\ srvNow = 0
  /\ nextNoteId = MaxNote
  /\ nextCatId = 2
  /\ paginated \in BOOLEAN

NextEdit ==
  \/ \E s \in Slots : SrvOk(s)
  \/ \E s \in Slots :
       \/ DeliverQuery(s)
       \/ DeliverCreateNote(s)
       \/ DeliverUpdateNote(s)
       \/ DeliverDeleteCategory(s)
  \/ \E i \in 1..MaxCat : handleDeleteCategory(i)
  \/ \E v \in 0..(MaxCat + 1) : EditorSelectCategory(v)
  \/ handleNewNote
  \/ SetTitle(<<"a">>)
  \/ handleSave
  \/ \E i \in 1..MaxNote : ClickNote(i)
  \/ handleEditNote

SpecEdit == InitWriting /\ [][NextEdit]_vars

\* The server fails to list the notes.
SrvListFails(s) == net[s].kind = "getNotes" /\ SrvError(s, 500)

\* One note is written, edited, pinned and deleted; the server answers
\* every request, at times failing to list the notes, and every answer is
\* handled.
NextRefresh ==
  \/ \E s \in Slots : SrvOk(s)
  \/ \E s \in Slots : SrvListFails(s)
  \/ \E s \in Slots : DeliverQuery(s)
  \/ \E s \in Slots : DeliverCreateNote(s) \/ DeliverUpdateNote(s)
  \/ \E s \in Slots : DeliverDeleteNote(s) \/ DeliverTogglePin(s)
  \/ handleNewNote
  \/ SetTitle(<<"a">>)
  \/ handleSave
  \/ \E i \in 1..MaxNote : ClickNote(i)
  \/ handleEditNote
  \/ handleDeleteNote
  \/ confirmDelete
  \/ handleTogglePin

SpecRefresh ==
  /\ InitWriting
  /\ [][NextRefresh]_vars
  /\ WF_vars(\E s \in Slots : SrvOk(s))
  /\ WF_vars(\E s \in Slots : DeliverQuery(s))
  /\ WF_vars(\E s \in Slots : DeliverCreateNote(s) \/ DeliverUpdateNote(s))
  /\ WF_vars(\E s \in Slots : DeliverDeleteNote(s) \/ DeliverTogglePin(s))

\* The editor's form: the texts typed into the title and the content, with
\* and without blanks around them, are submitted for a new note and for
\* the note that has been created.
Texts == {<<>>, <<Space>>, <<"a">>, <<Space, "a", Space>>}

NextSave ==
  \/ \E s \in Slots : SrvOk(s)
  \/ \E s \in Slots : DeliverQuery(s)
  \/ \E s \in Slots : DeliverCreateNote(s) \/ DeliverUpdateNote(s)
  \/ handleNewNote
  \/ \E t \in Texts : SetTitle(t)
  \/ \E c \in Texts : SetContent(c)
  \/ handleSave
  \/ handleEditNote

SpecSave == InitWriting /\ [][NextSave]_vars

\* The editor: a note of the list is selected and edited, a note is
\* written anew, the edit is cancelled, the form is submitted; the
\* category filter and the editor's category select are left alone.
NextWrite ==
  \/ \E s \in Slots : SrvOk(s)
  \/ \E s \in Slots : DeliverQuery(s)
  \/ \E s \in Slots : DeliverCreateNote(s) \/ DeliverUpdateNote(s)
  \/ handleNewNote
  \/ SetTitle(<<"b">>)
  \/ handleSave
  \/ \E i \in 1..MaxNote : ClickNote(i)
  \/ handleEditNote
  \/ CancelEdit

SpecWrite == InitSession /\ [][NextWrite]_vars

\* ----------------------------------------------------------- the list view
\* The notes arrays the list view is given: up to MaxLen notes with any
\* pin, timestamp, category and title.
NoteAttrs ==
  [title : {<<"a">>, <<"B">>}, updated_at : {Stamp(t) : t \in 0..MaxTime},
   is_pinned : BOOLEAN, category : {NullId, 1}]

NotesOfAttrs(f) ==
  [i \in DOMAIN f |->
     Note(i, f[i].title, <<"b">>, f[i].updated_at, f[i].is_pinned, f[i].category)]

NoteArrays ==
  UNION {{NotesOfAttrs(f) : f \in [1..n -> NoteAttrs]} : n \in 0..MaxLen}

\* Both lists are loaded; the notes queries of all categories hold the
\* same array, the server's list not depending on the category.
LoadedCache(ns) ==
  [k \in QueryKeys |->
     IF k = CategoriesKey THEN Some(ListBody(FALSE, <<OwnCat>>, 0))
     ELSE IF k = NotesRootKey THEN None
     ELSE Some(ListBody(FALSE, ns, 0))]

InitView ==
  /\ InitPage
  /\ cache \in {LoadedCache(ns) : ns \in NoteArrays}
  /\ fetchSlot = [k \in QueryKeys |-> 0]
  /\ net = [s \in Slots |-> EmptyMsg]
  /\ srvNotes = <<>>
  /\ srvCats = <<OwnCat, ForeignCat>>
  /\ srvNow = 0
  /\ nextNoteId = 1
  /\ nextCatId = 2
  /\ paginated = FALSE

NextView ==
  \/ \E q \in {<<>>, <<"a">>, <<"A">>, <<"b">>} : SetSearchQuery(q)
  \/ \E i \in 1..MaxCat : SelectCategory(i)
  \/ SelectAllNotes

SpecView == InitView /\ [][NextView]_vars

\* ------------------------------------------------- the optimistic updates
\* The updaters of onMutate are given any array under ['notes']: up to
\* MaxLen notes with any pin and timestamp.
PinArrays ==
  {ns \in NoteArrays :
     \A i \in 1..Len(ns) : ns[i].title = <<"a">> /\ ns[i].category = 1}

InitOptimistic ==
  /\ InitPage
  /\ cache \in {[LoadedCache(ns) EXCEPT
                    ![NotesRootKey] = Some(ListBody(FALSE, ns, 0))] :
                 ns \in PinArrays}
  /\ fetchSlot = [k \in QueryKeys |-> 0]
  /\ net = [s \in Slots |-> EmptyMsg]
  /\ srvNotes = <<>>
  /\ srvCats = <<OwnCat, ForeignCat>>
  /\ srvNow = 0
  /\ nextNoteId = 1
  /\ nextCatId = 2
  /\ paginated = FALSE

NextOptimistic ==
  \/ \E i \in 1..MaxLen : ClickNote(i)
  \/ handleDeleteNote
  \/ CancelDelete
  \/ confirmDelete
  \/ handleTogglePin

SpecOptimistic == InitOptimistic /\ [][NextOptimistic]_vars

\* ------------------------------------------------------------ a long list
\* The account holds one note more than a page of the default size.
ManyNotes ==
  [i \in 1..(DefaultPageSize + 1) |->
     Note(i, <<"a">>, <<"b">>, Stamp(0), FALSE, 1)]

InitLongList ==
  /\ InitBrowser
  /\ srvNotes = ManyNotes
  /\ srvCats = <<OwnCat, ForeignCat>>
  /\ srvNow = 0
  /\ nextNoteId = DefaultPageSize + 2
  /\ nextCatId = 2
  /\ paginated \in BOOLEAN

\* The user scrolls the ScrollArea of the notes list: the component has no
\* scroll handler, no state changes and no request is sent.
ScrollDown ==
  /\ Visible
  /\ toasted' = {}
  /\ UNCHANGED <<authVars, uiVars, queryVars, net, srvVars, scriptVars>>

NextScroll ==
  \/ \E s \in Slots : SrvOk(s)
  \/ \E s \in Slots : DeliverQuery(s)
  \/ ScrollDown
  \/ \E q \in {<<>>, <<"a">>} : SetSearchQuery(q)
  \/ \E i \in 1..MaxCat : SelectCategory(i)
  \/ SelectAllNotes

\* The server answers every request and every answer is handled.
SpecScroll ==
  /\ InitLongList
  /\ [][NextScroll]_vars
  /\ WF_vars(\E s \in Slots : SrvOk(s))
  /\ WF_vars(\E s \in Slots : DeliverQuery(s))

\* ------------------------------------------------------- round-trip script
\* A sequential caller of the notes functions of api.ts, one call at a
\* time: it awaits each call and keeps what the successful calls told it.
\* seen.expect is, by note id, the title, content and category the caller
\* expects to read; seen.read the result of the getNotes that came last;
\* seen.id and seen.data the arguments of the call that is awaited.
NoteInputs ==
  {[title |-> t, content |-> <<"c">>, category |-> k] :
     t \in {<<"a">>, <<"b">>}, k \in {NullId, 1}}

Fields(n) == [title |-> n.title, content |-> n.content, category |-> n.category]

ScriptCall(req, id, data) ==
  /\ pc = "idle"
  /\ net' = Send(net, req, lsToken)
  /\ pc' = "called"
  /\ seen' = [seen EXCEPT !.read = None, !.id = id, !.data = data]
  /\ toasted' = {}
  /\ UNCHANGED <<authVars, uiVars, queryVars, srvVars>>

ScriptCreate(data) == ScriptCall(createNote(data), 0, Some(data))
ScriptUpdate(id, data) == ScriptCall(updateNote(id, data), id, Some(data))
ScriptDelete(id) == ScriptCall(deleteNote(id), id, None)
ScriptGetNotes ==
  ScriptCall(getNotes(Some(DefaultPage), DefaultPageSize), 0, None)

\* The awaited call returns (2xx) or throws.
ScriptReturn(s) ==
  LET m == net[s]
      ok == Is2xx(m.status)
  IN /\ pc = "called"
     /\ m.phase = "resp"
     /\ Intercept(m)
     /\ net' = Freed(s)
     /\ pc' = "idle"
     /\ seen' =
          IF ~ok THEN seen
          ELSE IF m.kind = "createNote"
            THEN [seen EXCEPT !.expect[The(m.body).id] = Some(Fields(The(m.body))),
                              !.done = @ \cup {"create"}]
          ELSE IF m.kind = "updateNote"
            THEN [seen EXCEPT !.expect[seen.id] = seen.data,
                              !.done = @ \cup {"update"}]
          ELSE IF m.kind = "deleteNote"
            THEN [seen EXCEPT !.expect[seen.id] = None,
                              !.done = @ \cup {"delete"}]
          ELSE [seen EXCEPT !.read = m.body]
     /\ toasted' = SessionToast(m)
     /\ UNCHANGED <<route, navTo, loginPending, loginError, uiVars, queryVars,
                    srvVars>>

InitCrud ==
  /\ token = Some("jwt1")
  /\ lsToken = Some("jwt1")
  /\ route = "/login"
  /\ navTo = "none"
  /\ timers = 0
  /\ loginPending = FALSE
  /\ loginError = ""
  /\ isClient = FALSE
  /\ crashed = FALSE
  /\ selectedNote = None
  /\ selectedCategory = None
  /\ newNoteMode = FALSE
  /\ title = <<>>
  /\ content = <<>>
  /\ searchQuery = <<>>
  /\ deleteDialogOpen = FALSE
  /\ noteToDelete = None
  /\ newCategoryDialogOpen = FALSE
  /\ cache = [k \in QueryKeys |-> None]
  /\ fetchSlot = [k \in QueryKeys |-> 0]
  /\ net = [s \in Slots |-> EmptyMsg]
  /\ toasted = {}
  /\ pc = "idle"
  /\ seen = [expect |-> [i \in NoteIds |-> None], read |-> None, done |-> {},
             id |-> 0, data |-> None]
  /\ srvNotes = <<>>
  /\ srvCats = <<OwnCat, ForeignCat>>
  /\ srvNow = 0
  /\ nextNoteId = 1
  /\ nextCatId = 2
  /\ paginated \in BOOLEAN

NextCrud ==
  \/ \E d \in NoteInputs : ScriptCreate(d)
  \/ \E i \in NoteIds, d \in NoteInputs : ScriptUpdate(i, d)
  \/ \E i \in NoteIds : ScriptDelete(i)
  \/ ScriptGetNotes
  \/ \E s \in Slots : SrvOk(s) \/ SrvUnauthorized(s)
  \/ \E s \in Slots, st \in {0, 500} : SrvError(s, st)
  \/ \E s \in Slots : ScriptReturn(s)
  \/ Tick

SpecCrud == InitCrud /\ [][NextCrud]_vars

\* The session expires under the caller, and the user logs in again.
NextExpiry ==
  \/ \E d \in NoteInputs : ScriptCreate(d)
  \/ \E i \in NoteIds : ScriptDelete(i)
  \/ ScriptGetNotes
  \/ \E s \in Slots : SrvOk(s) \/ SrvUnauthorized(s)
  \/ \E s \in Slots : ScriptReturn(s)
  \/ LoginSubmit
  \/ \E t \in Tokens : LoginOk(t)

SpecExpiry == InitCrud /\ [][NextExpiry]_vars

\* ---------------------------------------------------------------------------
\* Properties

FailedRollback(s) ==
  /\ DeliverDeleteNote(s) \/ DeliverTogglePin(s)
  /\ ~Is2xx(net[s].status)

\* C1: when a delete or a pin toggle fails, the rollback leaves the ['notes']
\* cache entry exactly as it was before the optimistic update, the entry
\* without data included.
RollbackRestoresEntry ==
  [][\A s \in Slots :
       FailedRollback(s) => cache'[NotesRootKey] = net[s].before]_vars

\* C2: as soon as onMutate has run, the data of the query the page renders,
\* ['notes', selectedCategory?.id], shows the deletion or the pin change.
OptimisticUpdateRendered ==
  [][/\ (confirmDelete /\ IsSome(noteToDelete)) =>
          \A i \in 1..Len(notes'.results) :
            notes'.results[i].id # The(noteToDelete).id
     /\ handleTogglePin =>
          \A i \in 1..Len(notes'.results) :
            notes'.results[i].id = The(selectedNote).id =>
              notes'.results[i].is_pinned = ~The(selectedNote).is_pinned]_vars
MutationDelivery(s) ==
  \/ DeliverCreateNote(s)
  \/ DeliverUpdateNote(s)
  \/ DeliverDeleteNote(s)
  \/ DeliverTogglePin(s)
  \/ DeliverCreateCategory(s)
  \/ DeliverDeleteCategory(s)

Delivery(s) == DeliverQuery(s) \/ MutationDelivery(s)

\* C3: the handler of a response with status 401 removes 'token' from
\* localStorage, logs the store out and sets the redirect timer; a pending
\* redirect timer leads to the /login page.
SessionExpiryRedirects ==
  /\ [][\A s \in Slots :
          (net[s].status = Unauthorized /\ Delivery(s)) =>
             /\ lsToken' = None
             /\ token' = None
             /\ timers' = timers + 1]_vars
  /\ (timers > 0) ~> (route = "/login" /\ timers = 0)

SessionExpiryHandled ==
  /\ "Session Expired" \in toasted
  /\ lsToken = None
  /\ token = None
  /\ timers > 0

\* C4: a create, update, delete or pin toggle of a note, or a create or
\* delete of a category, that fails with another error than a 401 shows a
\* toast.
FailureShowsToast ==
  [][\A s \in Slots :
       (/\ ~Is2xx(net[s].status)
        /\ net[s].status # Unauthorized
        /\ MutationDelivery(s)) => toasted' # {}]_vars

Referenced(c) == \E i \in 1..Len(srvNotes) : srvNotes[i].category = c

\* C5: no deleteCategory request for a category is issued, and no category
\* is removed, while a note of the user has that category.
DeleteCategoryBlocked ==
  [][/\ \A i \in 1..MaxCat :
          (handleDeleteCategory(i) /\ net' # net) =>
             ~Referenced(categories.results[i].id)
     /\ \A c \in CatIds :
          (CatExists(srvCats, c) /\ ~CatExists(srvCats', c)) => ~Referenced(c)]_vars

SaveRequests ==
  {s \in Slots : net[s].kind \in {"createNote", "updateNote"} /\ net[s].phase = "req"}

Sent == {s \in Slots : net'[s].phase = "req" /\ net[s].phase # "req"}

\* C7: a request leaves with the header Authorization: Bearer t exactly
\* when localStorage holds the token t as it is sent, and with no
\* Authorization header when localStorage holds none.
AuthorizationHeader ==
  [][\A s \in Sent :
       net'[s].auth = IF IsSome(lsToken) THEN Some(<<"Bearer", The(lsToken)>>)
                      ELSE None]_vars

SentWithoutToken ==
  \E s \in Slots : net[s].phase = "req" /\ net[s].sentWith = None

ListRequests(n) ==
  {s \in Slots : n[s].kind \in {"getNotes", "getCategories"} /\ n[s].phase = "req"}

\* C8: while the auth store holds no token the Notes page renders nothing,
\* its queries are disabled and send no list request, and the router has
\* been pushed to /login.
ProtectedPage ==
  [][~IsSome(token') =>
       /\ \A s \in ListRequests(net') : s \in ListRequests(net)
       /\ route' = "/notes" =>
            /\ ~crashed'
            /\ RendersNothing(token', isClient')
            /\ ~QueriesEnabled(token', isClient')
            /\ navTo' = "/login"]_vars

Shows(items, id, f) ==
  \E i \in 1..Len(items) : items[i].id = id /\ Fields(items[i]) = f

\* C9: a getNotes that follows successful calls shows every note a
\* createNote returned, with the title, content and category of the last
\* successful updateNote of it, and shows no note a deleteNote removed.
CrudRoundTrip ==
  (pc = "idle" /\ IsSome(seen.read)) =>
     \A id \in NoteIds :
       IF IsSome(seen.expect[id])
         THEN Shows(The(seen.read).results, id, The(seen.expect[id]))
         ELSE \A i \in 1..Len(The(seen.read).results) :
                The(seen.read).results[i].id # id

RoundTripRead ==
  /\ pc = "idle"
  /\ IsSome(seen.read)
  /\ seen.done = {"create", "update", "delete"}
  /\ \E id \in NoteIds : IsSome(seen.expect[id])

\* C10: in sortedNotes every pinned note comes before every unpinned one,
\* notes of the same pinned status are in the order of updated_at, the most
\* recent first, and sortedNotes holds the notes of filteredNotes, each once.
PinnedFirst ==
  /\ \A i, j \in 1..Len(sortedNotes) :
       i < j =>
         /\ sortedNotes[j].is_pinned => sortedNotes[i].is_pinned
         /\ sortedNotes[i].is_pinned = sortedNotes[j].is_pinned =>
              GetTime(sortedNotes[i].updated_at) >= GetTime(sortedNotes[j].updated_at)
  /\ Len(sortedNotes) = Len(filteredNotes)
  /\ \A n \in Range(filteredNotes) :
       Cardinality({i \in 1..Len(sortedNotes) : sortedNotes[i] = n}) =
         Cardinality({i \in 1..Len(filteredNotes) : filteredNotes[i] = n})

SortedMixedList ==
  /\ IsSome(selectedCategory)
  /\ Len(sortedNotes) = MaxLen
  /\ sortedNotes # filteredNotes
  /\ \E i, j \in 1..Len(sortedNotes) :
       sortedNotes[i].is_pinned /\ ~sortedNotes[j].is_pinned
  /\ \E i, j \in 1..Len(sortedNotes) :
       /\ sortedNotes[i].is_pinned = sortedNotes[j].is_pinned
       /\ sortedNotes[i].updated_at # sortedNotes[j].updated_at

\* The text s contains the text q when the case of the letters is ignored.
ContainsIgnoringCase(s, q) ==
  \E i \in 0..(Len(s) - Len(q)) : \A j \in 1..Len(q) : Lower(s[i + j]) = Lower(q[j])

Wanted(note) ==
  /\ IsSome(selectedCategory) => note.category = The(selectedCategory).id
  /\ searchQuery # <<>> =>
       \/ ContainsIgnoringCase(note.title, searchQuery)
       \/ ContainsIgnoringCase(note.content, searchQuery)

WantedAt == {i \in 1..Len(notes.results) : Wanted(notes.results[i])}

\* C11: filteredNotes holds exactly the loaded notes that have the selected
\* category, when one is selected, and contain the search query in title or
\* content, case ignored, when it is not empty, in the order of the loaded
\* list; with no category and an empty query it is the loaded list.
FilterExact ==
  /\ Len(filteredNotes) = Cardinality(WantedAt)
  /\ \A k \in 1..Len(filteredNotes) :
       filteredNotes[k] =
         notes.results[CHOOSE i \in WantedAt :
                         Cardinality({j \in WantedAt : j <= i}) = k]
  /\ (~IsSome(selectedCategory) /\ searchQuery = <<>>) =>
       filteredNotes = notes.results

FilteredBoth ==
  /\ IsSome(selectedCategory)
  /\ searchQuery = <<"A">>
  /\ filteredNotes # <<>>
  /\ \E i \in 1..Len(notes.results) :
       /\ notes.results[i].category = The(selectedCategory).id
       /\ i \notin WantedAt
  /\ \E i \in 1..Len(notes.results) :
       notes.results[i].category # The(selectedCategory).id

\* C12: a deleteNote request for a note is sent only by the confirm button
\* of the open delete dialog, for the note that handleDeleteNote put into
\* noteToDelete as it opened the dialog; confirmDelete sends nothing when
\* noteToDelete is null; Cancel sends nothing and leaves the notes as they are.
DeleteOnlyConfirmed ==
  [][/\ \A s \in Sent :
          net'[s].kind = "deleteNote" =>
             /\ confirmDelete
             /\ deleteDialogOpen
             /\ IsSome(noteToDelete)
             /\ net'[s].id = The(noteToDelete).id
     /\ (IsSome(noteToDelete') /\ noteToDelete' # noteToDelete) =>
          handleDeleteNote /\ noteToDelete' = selectedNote
     /\ (deleteDialogOpen' /\ ~deleteDialogOpen) =>
          handleDeleteNote /\ noteToDelete' = selectedNote
     /\ (confirmDelete /\ ~IsSome(noteToDelete)) => Sent = {}
     /\ CancelDelete => Sent = {} /\ cache' = cache /\ srvNotes' = srvNotes]_vars

DeleteConfirmed ==
  \E s \in Slots :
    /\ net[s].kind = "deleteNote"
    /\ net[s].phase = "req"
    /\ IsSome(noteToDelete)
    /\ net[s].id = The(noteToDelete).id
    /\ ~deleteDialogOpen

\* Every note of the server is in the data of the page's notes query.
AllLoaded ==
  \A i \in 1..Len(srvNotes) : NoteExists(notes.results, srvNotes[i].id)

\* C13: the notes are loaded page by page as the user scrolls, so that
\* eventually every note of the user is in the list of the Notes page.
EveryNoteLoaded == <>AllLoaded

\* The last of the mutations that were in flight together settles.
LastSettles(s) ==
  /\ DeliverDeleteNote(s) \/ DeliverTogglePin(s)
  /\ The(net[s].hist).overlapped
  /\ CacheMutations(net') = {}

\* C14: when the last of a deleteNote and a togglePin that were in flight
\* together has settled, the ['notes'] entry is the entry from before the
\* two with the optimistic changes of those that succeeded, and that entry
\* itself when both failed, in whatever order the responses arrived.
OverlapSettled ==
  [][\A s \in Slots :
       LastSettles(s) =>
         cache'[NotesRootKey] =
           IF Is2xx(net[s].status)
             THEN OptimisticEntry(net[s], The(net[s].hist).want)
             ELSE The(net[s].hist).want]_vars

\* A response that is an error reaches the code that awaits the call.
ErrorDelivery(s) ==
  /\ ~Is2xx(net[s].status)
  /\ IF pc = "called" THEN ScriptReturn(s) ELSE Delivery(s)

\* C15: the error handler of the response interceptor leaves localStorage's
\* token, the auth store and the redirect timers alone unless the status is
\* 401; with any status, 401 included, the call is rejected: the caller
\* gets no data.
OnlyUnauthorizedLogsOut ==
  [][\A s \in Slots :
       ErrorDelivery(s) =>
         /\ net[s].status # Unauthorized =>
              /\ lsToken' = lsToken
              /\ token' = token
              /\ timers' = timers
         /\ seen' = seen
         /\ (pc # "called" /\ DeliverQuery(s)) => cache' = cache]_vars

ErrorRejected ==
  /\ pc = "idle"
  /\ IsSome(seen.data)
  /\ seen.done = {}
  /\ IsSome(lsToken)
  /\ IsSome(token)
  /\ timers = 0

\* C16: the handler of a 401 response leaves localStorage without token;
\* localStorage stays without token until a login stores a new one; and a
\* request sent while localStorage has no token has no Authorization header.
NoHeaderAfterExpiry ==
  [][/\ \A s \in Slots :
          (net[s].status = Unauthorized /\ ErrorDelivery(s)) => lsToken' = None
     /\ (lsToken = None /\ lsToken' # None) => \E t \in Tokens : LoginOk(t)
     /\ \A s \in Sent : lsToken = None => net'[s].auth = None]_vars

SentAfterExpiry ==
  /\ timers > 0
  /\ pc = "called"
  /\ lsToken = None
  /\ \E s \in Slots : net[s].phase = "req" /\ net[s].auth = None

\* The answer to the page's current notes query arrives with data.
NotesArrive(s) ==
  /\ net[s].kind = "getNotes"
  /\ Is2xx(net[s].status)
  /\ route = "/notes"
  /\ net[s].key = NotesKeyOf(selectedCategory)
  /\ fetchSlot[net[s].key] = s
  /\ DeliverQuery(s)

\* C17: the Notes page asks for its notes with getNotes(1, 20), and the list
\* it filters, sorts and counts is the results array of the response.
FirstPageListed ==
  [][/\ \A s \in Sent :
          net'[s].kind = "getNotes" =>
             /\ net'[s].page = Some(DefaultPage)
             /\ net'[s].pageSize = DefaultPageSize
     /\ \A s \in Slots :
          NotesArrive(s) =>
             /\ ~crashed'
             /\ ~notes'.paged
             /\ notes'.results = The(net[s].body).results]_vars

\* The places of the array old whose note has another id than id.
OthersAt(old, id) == {i \in 1..Len(old) : old[i].id # id}

\* C18: onMutate of deleteNote(id) leaves under ['notes'] the notes with
\* another id, unchanged and in their order; onMutate of togglePin(id, p)
\* sets is_pinned of the notes with that id to p and changes no other field
\* and no other note; neither touches another cache entry.
OptimisticTargetOnly ==
  [][LET old == OldNotes(cache)
         new == OldNotes(cache')
     IN /\ (confirmDelete /\ IsSome(noteToDelete)) =>
             LET at == OthersAt(old, The(noteToDelete).id)
             IN /\ Len(new) = Cardinality(at)
                /\ \A k \in 1..Len(new) :
                     new[k] = old[CHOOSE i \in at :
                                    Cardinality({j \in at : j <= i}) = k]
        /\ handleTogglePin =>
             /\ Len(new) = Len(old)
             /\ \A i \in 1..Len(old) :
                  IF old[i].id = The(selectedNote).id
                    THEN /\ new[i].is_pinned = ~The(selectedNote).is_pinned
                         /\ [new[i] EXCEPT !.is_pinned = old[i].is_pinned] = old[i]
                    ELSE new[i] = old[i]
        /\ (confirmDelete \/ handleTogglePin) =>
             \A k \in QueryKeys \ {NotesRootKey} : cache'[k] = cache[k]]_vars

TargetChanged ==
  \E s, t \in Slots :
    /\ net[s].kind = "deleteNote"
    /\ net[t].kind = "togglePinNote"
    /\ net[s].id # net[t].id
    /\ Len(The(net[t].before).results) = MaxLen
    /\ Len(OldNotes(cache)) = MaxLen - 1
    /\ \E i \in 1..Len(OldNotes(cache)) :
         /\ OldNotes(cache)[i].id = net[t].id
         /\ OldNotes(cache)[i].is_pinned = The(net[t].data).is_pinned

NoteMutationKinds == {"createNote", "updateNote", "deleteNote", "togglePinNote"}

\* A create, update, delete or pin toggle of a note succeeds.
NoteSuccess(s) ==
  /\ net[s].kind \in NoteMutationKinds
  /\ Is2xx(net[s].status)
  /\ MutationDelivery(s)

\* No mutation of a note is in flight.
Quiet == \A s \in Slots : net[s].kind \notin NoteMutationKinds

\* The page shows a list, and its notes are the server's notes of the user.
Shown == ~crashed /\ notes = ListBody(FALSE, srvNotes, 0)

\* The server has failed to list the notes.
RefetchFailed ==
  \E s \in Slots :
    net[s].kind = "getNotes" /\ net[s].phase = "resp" /\ ~Is2xx(net[s].status)

\* The step before was the success of a mutation of a note.
Succeeded ==
  toasted \cap {"Note Created", "Note Updated", "Note Deleted", "Note Pinned",
                "Note Unpinned"} # {}

\* C19: a successful create, update, delete or pin toggle of a note makes
\* the notes query the page observes fetch again; and once the last
\* mutation of a note in flight has succeeded, the page's notes become the
\* server's notes unless another mutation of a note is issued or the
\* server fails to list the notes.
RefreshedAfterSuccess ==
  /\ [][\A s \in Slots :
          (NoteSuccess(s) /\ Observing) =>
             \E r \in Sent :
               /\ net'[r].kind = "getNotes"
               /\ fetchSlot'[NotesKeyOf(selectedCategory)] = r]_vars
  /\ (Succeeded /\ Quiet) ~> (Shown \/ ~Quiet \/ RefetchFailed)

\* The details a rejecting token endpoint sends: none, or a message.
LoginDetails == {"", "No active account"}

\* C20: Login.handleSubmit stores the access token and pushes /notes when
\* the token endpoint answers ok, and nothing else stores a token; when the
\* endpoint answers not ok or the request throws, the token, the route and
\* the router are left alone and the error is the response's detail or
\* 'Login failed'.
LoginOnlyOnSuccess ==
  [][/\ \A t \in Tokens :
          LoginOk(t) => token' = Some(t) /\ navTo' = "/notes"
     /\ (IsSome(token') /\ token' # token) => \E t \in Tokens : LoginOk(t)
     /\ \A d \in LoginDetails :
          LoginRejected(d) =>
             /\ token' = token
             /\ lsToken' = lsToken
             /\ navTo' = navTo
             /\ route' = route
             /\ loginError' \in {d, "Login failed"}
             /\ d # "" => loginError' = d
     /\ LoginThrows =>
          /\ token' = token
          /\ lsToken' = lsToken
          /\ navTo' = navTo
          /\ route' = route
          /\ loginError' = "Login failed"]_vars

LoggedInAfterRejection ==
  /\ route = "/login"
  /\ loginError = "No active account"
  /\ IsSome(token)
  /\ navTo = "/notes"

\* C21: when requests that were in flight together are all answered with
\* 401, the session expiry is handled once: the answer that arrives while
\* the redirect of an earlier 401 is pending sets no second redirect timer
\* and shows no second 'Session Expired' toast.
ExpiryHandledOnce ==
  [][\A s \in Slots :
       (/\ net[s].status = Unauthorized
        /\ IsSome(net[s].sentWith)
        /\ timers > 0
        /\ Delivery(s)) =>
          /\ timers' = timers
          /\ "Session Expired" \notin toasted']_vars

\* A text of blanks only; a text without its leading and trailing blanks.
Blank(s) == \A i \in 1..Len(s) : s[i] = Space
Spaces(n) == [i \in 1..n |-> Space]
IsTrimOf(r, s) ==
  /\ r = <<>> \/ (r[1] # Space /\ r[Len(r)] # Space)
  /\ \E i, j \in 0..Len(s) : s = Spaces(i) \o r \o Spaces(j)

\* C22: handleSave sends no request when the title and the content are both
\* empty after trimming; otherwise it sends one create or update whose
\* content is the trimmed content and whose title is the trimmed title, or
\* 'Untitled Note' when the trimmed title is empty; no note of the server
\* has an empty title.
SavePayload ==
  /\ [][handleSave =>
          IF Blank(title) /\ Blank(content)
            THEN net' = net
            ELSE \E s \in Sent :
                   /\ Sent = {s}
                   /\ net'[s].kind \in {"createNote", "updateNote"}
                   /\ IsTrimOf(The(net'[s].data).content, content)
                   /\ The(net'[s].data).title # <<>>
                   /\ IF Blank(title)
                        THEN The(net'[s].data).title = UntitledNote
                        ELSE IsTrimOf(The(net'[s].data).title, title)]_vars
  /\ [](\A i \in 1..Len(srvNotes) : srvNotes[i].title # <<>>)

UntitledSaved ==
  /\ Blank(title)
  /\ title # <<>>
  /\ \E s \in Slots :
       /\ net[s].kind = "createNote"
       /\ net[s].phase = "req"
       /\ The(net[s].data).title = UntitledNote
       /\ The(net[s].data).content = <<"a">>
       /\ content = <<Space, "a", Space>>

\* C23: a save never duplicates an edited note.  The editor is in edit mode
\* on a note n only through handleEditNote(n), and a save in that mode sends
\* updateNote for n's id and no createNote; the editor is in edit mode on
\* no note only through handleNewNote, and only a save in that mode sends
\* createNote.
SaveNeverDuplicates ==
  [][/\ (handleSave /\ net' # net) =>
          \E s \in Sent :
            /\ Sent = {s}
            /\ IF IsSome(selectedNote)
                 THEN /\ net'[s].kind = "updateNote"
                      /\ net'[s].id = The(selectedNote).id
                 ELSE net'[s].kind = "createNote"
     /\ (/\ newNoteMode' /\ IsSome(selectedNote')
         /\ ~(newNoteMode /\ selectedNote = selectedNote')) =>
          handleEditNote /\ selectedNote' = selectedNote
     /\ (/\ newNoteMode' /\ ~IsSome(selectedNote')
         /\ ~(newNoteMode /\ ~IsSome(selectedNote))) => handleNewNote]_vars

EditedNoteSaved ==
  /\ Len(srvNotes) = 2
  /\ newNoteMode
  /\ IsSome(selectedNote)
  /\ \E s \in Slots :
       /\ net[s].kind = "updateNote"
       /\ net[s].phase = "req"
       /\ net[s].id = The(selectedNote).id

\* C24: a save of an edited note, the category select left alone, keeps the
\* note's category: the update carries the category the note has.
CategoryKept ==
  [][handleSave =>
       \A s \in Sent :
         net'[s].kind = "updateNote" =>
           The(net'[s].data).category = The(selectedNote).category]_vars

\* C25: at most one save request, createNote or updateNote, is in flight at
\* any time.
OneSaveInFlight ==
  Cardinality(InFlight("createNote") \cup InFlight("updateNote")) <= 1

DeleteDone(n) ==
  /\ n < nextNoteId
  /\ ~NoteExists(srvNotes, n)
  /\ \A s \in Slots : ~(net[s].kind = "deleteNote" /\ net[s].id = n)

\* C27: once the success of a deleteNote for the note n has been handled,
\* no answer of an update or a pin toggle that arrives later makes
\* selectedNote refer to n.
DeletedNotSelected ==
  [][\A s \in Slots, n \in NoteIds :
       (/\ DeleteDone(n)
        /\ DeliverUpdateNote(s) \/ DeliverTogglePin(s)
        /\ selectedNote' # selectedNote) =>
          ~(IsSome(selectedNote') /\ The(selectedNote').id = n)]_vars

\* The category c of the user has been deleted on the server and the
\* answer to its deleteCategory has been handled.
CategoryDeleteDone(c) ==
  /\ c < nextCatId
  /\ ~CatExists(srvCats, c)
  /\ \A s \in Slots : ~(net[s].kind = "deleteCategory" /\ net[s].id = c)

\* C28: once the success of a deleteCategory for the category c has been
\* handled, selectedCategory does not refer to c, and handleSave sends no
\* create or update with the category c.
DeletedCategoryUnselected ==
  /\ [](\A c \in CatIds :
          CategoryDeleteDone(c) =>
            ~(IsSome(selectedCategory) /\ The(selectedCategory).id = c))
  /\ [][\A c \in CatIds :
          (CategoryDeleteDone(c) /\ handleSave) =>
             \A s \in Sent : The(net'[s].data).category # c]_vars
====
